---------------------------- MODULE Spec2Model ----------------------------
(***************************************************************************)
(* Nexus worker: the interval scheduler (scheduler.py, jobs/base.py,       *)
(* __main__.py) and the session-upload job (jobs/session_upload.py).       *)
(*                                                                         *)
(* File names are sequences of one-character strings, so that              *)
(* _extract_session_id and the glob pattern are computed on the name as    *)
(* the code computes them.  A file is an index into FileTable; the state   *)
(* records where each file currently is.                                   *)
(***************************************************************************)
EXTENDS Integers, Sequences, FiniteSets, TLC

(***************************************************************************)
(* Bounds of the model.                                                    *)
(***************************************************************************)
MaxFiles == 2
MaxPasses == 1
MaxInterval == 2
MaxClock == 125
MaxRuns == 4
MaxLiveFiles == 1

(***************************************************************************)
(* Program constants.                                                      *)
(***************************************************************************)
MAX_TRANSCRIPT_BYTES == 10485760
SESSION_ID_LEN == 36
UUID_HYPHENS == 4
SLEEP_SECONDS == 60
SECONDS_PER_MINUTE == 60
SmallFileBytes == 5120


(* None, for a session id, an optional timestamp, an optional result *)
NoId == <<>>
Nothing == <<>>
Some(x) == <<x>>

(***************************************************************************)
(* File names.                                                             *)
(***************************************************************************)
Rep(c, n) == [i \in 1..n |-> c]

Uuid(c) == Rep(c, 8) \o <<"-">> \o Rep(c, 4) \o <<"-">> \o Rep(c, 4)
           \o <<"-">> \o Rep(c, 4) \o <<"-">> \o Rep(c, 12)

ThreeHyphens(c) == Rep(c, 8) \o <<"-">> \o Rep(c, 4) \o <<"-">> \o Rep(c, 4)
                   \o <<"-">> \o Rep(c, 17)

JSONL == <<".", "j", "s", "o", "n", "l">>
BAK == <<".", "b", "a", "k">>
TXT == <<".", "t", "x", "t">>
SHORT == <<"s", "h", "o", "r", "t">>

(* str.count("-") *)
RECURSIVE Count(_, _)
Count(s, c) == IF s = <<>> THEN 0
               ELSE (IF Head(s) = c THEN 1 ELSE 0) + Count(Tail(s), c)

(* filename[:n] *)
Prefix(s, n) == SubSeq(s, 1, IF Len(s) < n THEN Len(s) ELSE n)

(* SessionUploadJob._extract_session_id *)
_extract_session_id(filename) ==
    IF Len(filename) >= SESSION_ID_LEN
    THEN LET session_id == Prefix(filename, SESSION_ID_LEN)
         IN  IF Len(session_id) = SESSION_ID_LEN
                /\ Count(session_id, "-") = UUID_HYPHENS
             THEN session_id
             ELSE NoId
    ELSE NoId

(* fnmatch of the pattern "*.jsonl*": the name contains ".jsonl" *)
MatchesJsonlPattern(name) ==
    \E i \in 1..Len(name) :
        /\ i + Len(JSONL) - 1 <= Len(name)
        /\ SubSeq(name, i, i + Len(JSONL) - 1) = JSONL

(***************************************************************************)
(* The files the model draws from.  Each has a directory, a name, a size   *)
(* in bytes and whether its bytes decode as UTF-8; its content is the      *)
(* file itself (no two files hold the same transcript).                    *)
(***************************************************************************)
FileTable == <<
    [dir |-> "d1", name |-> Uuid("1") \o JSONL,
     size |-> SmallFileBytes, utf8 |-> TRUE],
    [dir |-> "d1", name |-> Uuid("1") \o JSONL,
     size |-> SmallFileBytes, utf8 |-> TRUE],
    [dir |-> "d1", name |-> Uuid("1") \o JSONL \o BAK,
     size |-> MAX_TRANSCRIPT_BYTES, utf8 |-> TRUE],
    [dir |-> "d1", name |-> Uuid("2") \o JSONL,
     size |-> MAX_TRANSCRIPT_BYTES + 1, utf8 |-> TRUE],
    [dir |-> "d1", name |-> SHORT \o JSONL,
     size |-> SmallFileBytes, utf8 |-> TRUE],
    [dir |-> "d1", name |-> ThreeHyphens("3") \o JSONL,
     size |-> SmallFileBytes, utf8 |-> TRUE],
    [dir |-> "d1", name |-> Uuid("4") \o JSONL,
     size |-> SmallFileBytes, utf8 |-> FALSE],
    [dir |-> "d2", name |-> Uuid("5") \o JSONL,
     size |-> SmallFileBytes, utf8 |-> TRUE],
    [dir |-> "d1", name |-> Uuid("6") \o TXT,
     size |-> SmallFileBytes, utf8 |-> TRUE] >>

Files == DOMAIN FileTable

Name(f) == FileTable[f].name
Dir(f) == FileTable[f].dir
Size(f) == FileTable[f].size

(* per file, computed once: _extract_session_id(file.name), and whether    *)
(* the name matches the glob pattern                                       *)
SidTable == [f \in Files |-> _extract_session_id(FileTable[f].name)]
MatchTable == [f \in Files |-> MatchesJsonlPattern(FileTable[f].name)]
Sid(f) == SidTable[f]

(* an older transcript under the name of another file: it starts archived *)
StartsArchived(f) ==
    \E g \in Files : g < f /\ Name(g) = Name(f) /\ Dir(g) = Dir(f)

(***************************************************************************)
(* Configuration (config.py): the agent registry and the job lists.        *)
(***************************************************************************)
NotAString == "<not a string>"
Dirs == {"d1", "d2"}

(* Config.agents : agent id -> AgentConfig *)
ConfigAgents == [a \in {"a1", "a2", "nodir", "bad"} |->
    [workspace |-> "",
     sessions_dir |-> CASE a = "a1" -> "d1"
                        [] a = "a2" -> "d2"
                        [] a = "nodir" -> "d9"
                        [] OTHER -> NotAString]]

JobConfig(id, type, enabled, interval_minutes, cfg) ==
    [id |-> id, type |-> type, enabled |-> enabled,
     interval_minutes |-> interval_minutes, config |-> cfg]

SU == "session_upload"

JobLists == {
    <<>>,
    << JobConfig("j1", "cleanup", TRUE, 1, [agents |-> <<"a1">>]) >>,
    << JobConfig("j1", SU, TRUE, 1, [agents |-> <<"ghost", "a1", "a2">>]) >>,
    << JobConfig("j1", SU, TRUE, 2, [agents |-> <<"a1", "a1">>]) >>,
    << JobConfig("j1", SU, TRUE, 1, [agents |-> <<"nodir", "a1">>]),
       JobConfig("j2", SU, TRUE, 2, [agents |-> <<"a1">>]) >>,
    << JobConfig("j1", SU, TRUE, 1, [agents |-> <<"bad", "a1">>]),
       JobConfig("j2", SU, TRUE, 1, [agents |-> <<"a2">>]) >>,
    << JobConfig("j1", SU, FALSE, 1, [agents |-> <<"a1">>]),
       JobConfig("j2", SU, TRUE, 1, [retention |-> "7d"]) >>,
    << JobConfig("j1", "cleanup", TRUE, 1, [agents |-> <<"a1">>]),
       JobConfig("j2", SU, TRUE, 2, [agents |-> <<"a1", "a2">>]) >> }

(* --job: "" when the option is absent *)
JobArgs == {"", "j1", "nope"}

(* dict.get(key, default) *)
DictGet(d, key, default) == IF key \in DOMAIN d THEN d[key] ELSE default

(***************************************************************************)
(* jobs/base.py: Job and JobResult.                                        *)
(***************************************************************************)
JobResult(job_id, success, message, items_processed, errors) ==
    [job_id |-> job_id, success |-> success, message |-> message,
     items_processed |-> items_processed, errors |-> errors]

(* Job.__init__ *)
NewJob(job_id, job_type, enabled, interval_minutes, cfg) ==
    [id |-> job_id, type |-> job_type, enabled |-> enabled,
     interval_minutes |-> interval_minutes, config |-> cfg,
     last_run |-> Nothing]

(* Job.is_due, at wall-clock time t (seconds) *)
IsDueStrictlyAfter(job, t) ==
    IF job.last_run = Nothing
    THEN TRUE
    ELSE t - job.last_run[1] > job.interval_minutes * SECONDS_PER_MINUTE

DueOnlyOnce(job, t) == job.last_run = Nothing

is_due(job, t) ==
    IF job.last_run = Nothing
    THEN TRUE
    ELSE LET elapsed == t - job.last_run[1]
         IN  elapsed >= job.interval_minutes * SECONDS_PER_MINUTE

(* Job.mark_run, at wall-clock time t *)
mark_run(job, t) == [job EXCEPT !.last_run = Some(t)]

(***************************************************************************)
(* scheduler.py: create_job and the job list of run_scheduler.             *)
(***************************************************************************)
JobTypes == {SU}

(* create_job: Nothing for an unknown type *)
CreateEnabledOnly(job_config) ==
    IF job_config.type \notin JobTypes \/ ~job_config.enabled
    THEN Nothing
    ELSE Some(NewJob(job_config.id, job_config.type, job_config.enabled,
                     job_config.interval_minutes, job_config.config))

create_job(job_config) ==
    IF job_config.type \notin JobTypes
    THEN Nothing
    ELSE Some(NewJob(job_config.id, job_config.type, job_config.enabled,
                     job_config.interval_minutes, job_config.config))

(* run_scheduler lines 68-73: the jobs created, in configuration order *)
RECURSIVE CreateJobs(_)
CreateJobs(job_configs) ==
    IF job_configs = <<>> THEN <<>>
    ELSE create_job(Head(job_configs)) \o CreateJobs(Tail(job_configs))

(* run_single_job lines 100-104: the first job config with that id *)
RECURSIVE FindJobConfig(_, _)
FindJobConfig(job_configs, job_id) ==
    IF job_configs = <<>> THEN Nothing
    ELSE IF Head(job_configs).id = job_id THEN Some(Head(job_configs))
    ELSE FindJobConfig(Tail(job_configs), job_id)

(***************************************************************************)
(* jobs/session_upload.py: the pure parts.                                 *)
(***************************************************************************)
(* the states of a sessions.json file *)
SessionsJsonStates ==
    { [kind |-> "missing", keys |-> {}],
      [kind |-> "malformed", keys |-> {}],
      [kind |-> "unreadable", keys |-> {}],
      [kind |-> "list", keys |-> {}],
      [kind |-> "dict", keys |-> {Uuid("1"), Uuid("2")}] }

(* _get_active_sessions: the keys of a mapping, and the empty set when the *)
(* file is missing, when open or json.load raises, when the value is no    *)
(* dict                                                                    *)
AllActiveUnlessMapping(sessions_file) ==
    IF sessions_file.kind = "dict" THEN sessions_file.keys
    ELSE { SidTable[f] : f \in Files }

_get_active_sessions(sessions_file) ==
    IF sessions_file.kind = "missing" THEN {}
    ELSE IF sessions_file.kind \in {"malformed", "unreadable"} THEN {}
    ELSE IF sessions_file.kind = "dict" THEN sessions_file.keys
    ELSE {}

(* a path below a sessions directory: sub is "sessions" for the directory  *)
(* itself and "archive" for its archive/ subdirectory                      *)
Path(sub, f) == [sub |-> sub, file |-> f]

(* sessions_dir.glob("*.jsonl*") filtered by is_file(): not recursive *)
GlobRecursive(sessions_dir, w) ==
    { Path(w[f], f) : f \in { g \in Files : /\ Dir(g) = sessions_dir
                                            /\ w[g] \in {"sessions", "archive"}
                                            /\ MatchTable[g] } }

GlobJsonl(sessions_dir, w) ==
    { Path("sessions", f) : f \in { g \in Files : /\ Dir(g) = sessions_dir
                                                  /\ w[g] = "sessions"
                                                  /\ MatchTable[g] } }

(* _find_completed_sessions *)
FindIgnoringActive(sessions_dir, active, w) ==
    { p \in GlobJsonl(sessions_dir, w) : Sid(p.file) # NoId }

_find_completed_sessions(sessions_dir, active, w) ==
    { p \in GlobJsonl(sessions_dir, w) :
        LET session_id == Sid(p.file)
        IN  session_id # NoId /\ session_id \notin active }

(* _upload_session line 182: the size guard *)
SizeRefusedAtLimit(file_size) == file_size >= MAX_TRANSCRIPT_BYTES

SizeRefused(file_size) == file_size > MAX_TRANSCRIPT_BYTES

(* _upload_session lines 209-220: the status-code policy *)
Only200IsSuccess(status_code) == status_code = 200

ResponseIsSuccess(status_code) ==
    IF status_code = 200 THEN TRUE
    ELSE IF status_code = 409 THEN TRUE
    ELSE IF status_code = 413 THEN FALSE
    ELSE FALSE

(* what the endpoint may answer, or the request raises RequestException *)
StatusCodes == {200, 201, 409, 413, 500}
NetOutcomes == { [kind |-> "response", status |-> c] : c \in StatusCodes }
               \cup { [kind |-> "RequestException", status |-> 0] }

(* SessionUploadJob.run line 55 *)
SuccessNeedsNoErrors(errs, total) == Len(errs) = 0

RunSuccess(errs, total) == Len(errs) = 0 \/ total > 0

(* the entries of JobResult.errors *)
Err(kind, agent, file) == [kind |-> kind, agent |-> agent, file |-> file]

(***************************************************************************)
(* State.                                                                  *)
(***************************************************************************)
VARIABLES
    args,             \* the command line: [job |-> id or ""]
    config,           \* the loaded Config: [jobs |-> sequence of JobConfig]
    pc,               \* where the process is
    jobs,             \* the Job instances of run_scheduler / run_single_job
    i,                \* run_scheduler: index of the job of the pass
    now,              \* wall clock, seconds
    passes,           \* passes of the poll loop completed
    k,                \* run: index into agent_ids
    total_uploaded,   \* run
    errors,           \* run
    uploaded,         \* _process_agent
    agent_errors,     \* _process_agent
    active_sessions,  \* _process_agent
    completed,        \* _process_agent: the candidates not yet processed
    result,           \* what run_job / run_single_job returned last
    exit_code,        \* the process exit code, once main returned
    where,            \* file system: file -> "absent" | "sessions" | "archive"
    sessionsJson,     \* file system: directory -> state of its sessions.json
    remote,           \* the transcripts the endpoint stored (as files)
    last,             \* history: what the last candidate step did
    ran,              \* history: indexes of the jobs run in this pass
    run_count,        \* history: calls of job.run so far
    refused,          \* history: files the size guard has refused
    arch0,            \* history: files in archive/ when the last run began
    fails,            \* history: candidates of the last run that failed
    cands,            \* history: candidates the last run found
    mark_count,       \* history: calls of job.mark_run so far
    tried,            \* history: file -> upload attempts in this pass
    unarchived,       \* history: file -> whether its last attempt was
                      \*          accepted but not archived, and in which run
    honest            \* history: the endpoint answered 409 only for a
                      \*          session id it holds a transcript of

runVars == <<k, total_uploaded, errors>>
agentVars == <<uploaded, agent_errors, active_sessions, completed>>
fsVars == <<where, sessionsJson, remote>>
cfgVars == <<args, config>>
ghostVars == <<refused, arch0, fails>>
attemptVars == <<tried, unarchived, honest>>
vars == <<args, config, pc, jobs, i, now, passes, k, total_uploaded, errors,
          uploaded, agent_errors, active_sessions, completed, result,
          exit_code, where, sessionsJson, remote, last, ran, run_count,
          refused, arch0, fails, cands, mark_count, tried, unarchived,
          honest>>

(* the files now in archive/ *)
Archived(w) == { f \in Files : w[f] = "archive" }

NoEvent == [op |-> "none", file |-> 0, sub |-> "", outcome |-> "",
            posted |-> FALSE, status |-> 0, nerr |-> 0, nup |-> 0,
            due |-> FALSE]

Init ==
    /\ args \in [job : JobArgs]
    /\ config \in [jobs : JobLists]
    /\ pc = "main"
    /\ jobs = <<>>
    /\ i = 0
    /\ now = 0
    /\ passes = 0
    /\ k = 0 /\ total_uploaded = 0 /\ errors = <<>>
    /\ uploaded = 0 /\ agent_errors = <<>>
    /\ active_sessions = {} /\ completed = {}
    /\ result = Nothing
    /\ exit_code = Nothing
    /\ \E S \in SUBSET Files :
          /\ Cardinality(S) <= MaxFiles
          /\ where = [f \in Files |->
                        IF f \notin S THEN "absent"
                        ELSE IF StartsArchived(f) THEN "archive"
                        ELSE "sessions"]
    /\ \E sj \in SessionsJsonStates :
          sessionsJson = [d \in Dirs |->
                            IF d = "d1" THEN sj
                            ELSE [kind |-> "dict", keys |-> {}]]
    /\ remote = {}
    /\ last = NoEvent
    /\ ran = {}
    /\ run_count = 0
    /\ refused = {}
    /\ arch0 = {}
    /\ fails = 0
    /\ cands = 0
    /\ mark_count = 0
    /\ tried = [f \in Files |-> 0]
    /\ unarchived = [f \in Files |-> "no"]
    /\ honest = TRUE

(***************************************************************************)
(* __main__.main lines 61-71 and scheduler.py.                             *)
(***************************************************************************)
SingleMode == args.job # ""

(* main lines 63-65: the exit code for run_single_job's result *)
ExitCodeFor(res) ==
    IF res = Nothing THEN 1
    ELSE IF res[1].success THEN 0 ELSE 1

(* run_single_job lines 97-113, up to the call of run_job *)
RunSingleJob ==
    /\ pc = "main"
    /\ SingleMode
    /\ LET job_config == FindJobConfig(config.jobs, args.job)
           job == IF job_config = Nothing THEN Nothing
                  ELSE create_job(job_config[1])
       IN  IF job = Nothing
           THEN /\ result' = Nothing
                /\ exit_code' = Some(ExitCodeFor(Nothing))
                /\ pc' = "exit"
                /\ UNCHANGED <<jobs, i>>
           ELSE /\ jobs' = job
                /\ i' = 1
                /\ pc' = "run_job"
                /\ UNCHANGED <<result, exit_code>>
    /\ last' = NoEvent
    /\ UNCHANGED <<cands, mark_count, attemptVars,
                   ghostVars, cfgVars,
                   now, passes, runVars, agentVars, fsVars, ran,
                   run_count>>

(* run_scheduler lines 65-79; main line 71 when it returns *)
RunScheduler ==
    /\ pc = "main"
    /\ ~SingleMode
    /\ LET created == CreateJobs(config.jobs)
       IN  IF created = <<>>
           THEN /\ exit_code' = Some(0)
                /\ pc' = "exit"
                /\ UNCHANGED <<jobs, i>>
           ELSE /\ jobs' = created
                /\ i' = 1
                /\ pc' = "poll"
                /\ UNCHANGED exit_code
    /\ last' = NoEvent
    /\ UNCHANGED <<cands, mark_count, attemptVars,
                   ghostVars, cfgVars,
                   now, passes, runVars, agentVars, fsVars, ran,
                   run_count, result>>

(* run_scheduler lines 84-90: the job of the pass is run when it is        *)
(* enabled and due                                                         *)
PollRunsDisabledToo(job, t) == is_due(job, t)

PollRunsOnce(job, t) == job.enabled /\ job.last_run = Nothing

PollRuns(job, t) == job.enabled /\ is_due(job, t)

(* run_scheduler lines 83-85 *)
PollSkipDisabled ==
    /\ pc = "poll"
    /\ i <= Len(jobs)
    /\ ~jobs[i].enabled
    /\ i' = i + 1
    /\ last' = NoEvent
    /\ result' = Nothing
    /\ arch0' = {}
    /\ fails' = 0
    /\ cands' = 0
    /\ UNCHANGED <<mark_count, attemptVars,
                   refused, cfgVars,
                   pc, jobs, now, passes, runVars, agentVars, fsVars,
                   ran, run_count, exit_code>>

(* run_scheduler lines 87-88 *)
PollSkipNotDue ==
    /\ pc = "poll"
    /\ i <= Len(jobs)
    /\ jobs[i].enabled
    /\ ~is_due(jobs[i], now)
    /\ i' = i + 1
    /\ last' = NoEvent
    /\ result' = Nothing
    /\ arch0' = {}
    /\ fails' = 0
    /\ cands' = 0
    /\ UNCHANGED <<mark_count, attemptVars,
                   refused, cfgVars,
                   pc, jobs, now, passes, runVars, agentVars, fsVars,
                   ran, run_count, exit_code>>

(* run_scheduler line 90: the call of run_job *)
PollRunJob ==
    /\ pc = "poll"
    /\ i <= Len(jobs)
    /\ PollRuns(jobs[i], now)
    /\ pc' = "run_job"
    /\ last' = NoEvent
    /\ result' = Nothing
    /\ arch0' = {}
    /\ fails' = 0
    /\ cands' = 0
    /\ UNCHANGED <<mark_count, attemptVars,
                   refused, cfgVars,
                   jobs, i, now, passes, runVars, agentVars, fsVars,
                   ran, run_count, exit_code>>

(* run_scheduler line 92: the pass is over, time.sleep(60) *)
PollSleep ==
    /\ pc = "poll"
    /\ i > Len(jobs)
    /\ passes < MaxPasses
    /\ now' = now + SLEEP_SECONDS
    /\ passes' = passes + 1
    /\ i' = 1
    /\ ran' = {}
    /\ last' = NoEvent
    /\ result' = Nothing
    /\ arch0' = {}
    /\ fails' = 0
    /\ cands' = 0
    /\ tried' = [f \in Files |-> 0]
    /\ UNCHANGED <<mark_count, unarchived, honest,
                   refused, cfgVars,
                   pc, jobs, runVars, agentVars, fsVars, run_count, exit_code>>

(***************************************************************************)
(* run_job (scheduler.py lines 35-60) around SessionUploadJob.run.         *)
(***************************************************************************)
Msg(text, n, m) == [text |-> text, uploaded |-> n, errors |-> m]

(* str(e) of the exception a run raised *)
ExcText(exc) == Err(exc, "", 0)

(* run_job line 40: the job after a run that returned *)
NotMarked(job, t) == job

JobAfterRun(job, t) == mark_run(job, t)

(* run_job line 52: the job after a run that raised *)
JobAfterException(job, t) == mark_run(job, t)

(* run_job lines 54-60 *)
ExceptionResult(job_id, exc) ==
    JobResult(job_id, FALSE, Msg("Exception", 0, 0), 0, <<ExcText(exc)>>)

(* run lines 24-29 *)
NoAgentsResult(job_id) ==
    JobResult(job_id, TRUE, Msg("No agents configured", 0, 0), 0, <<>>)

(* run lines 55-68 *)
RunResult(job_id, total, errs) ==
    JobResult(job_id, RunSuccess(errs, total),
              IF Len(errs) > 0
              THEN Msg("Uploaded sessions, errors", total, Len(errs))
              ELSE Msg("Uploaded sessions", total, 0),
              total, errs)

(* the history counters stop at MaxRuns *)
CountUp(n) == IF n < MaxRuns THEN n + 1 ELSE n

(* a run begins: what was left unarchived in the run before is now from an *)
(* earlier run                                                             *)
NewRun(u) == [f \in Files |-> IF u[f] = "this_run" THEN "earlier_run"
                              ELSE u[f]]

(* run_job hands res to its caller: run_scheduler line 90 goes on with the *)
(* next job, main lines 62-65 exits with the code for the result           *)
BackToCaller(res) ==
    /\ result' = Some(res)
    /\ IF SingleMode
       THEN /\ pc' = "exit"
            /\ exit_code' = Some(ExitCodeFor(Some(res)))
            /\ i' = i
       ELSE /\ pc' = "poll"
            /\ i' = i + 1
            /\ UNCHANGED exit_code
    /\ k' = 0 /\ total_uploaded' = 0 /\ errors' = <<>>
    /\ uploaded' = 0 /\ agent_errors' = <<>>
    /\ active_sessions' = {} /\ completed' = {}

(* run_job lines 39-48: job.run returned res *)
RunJobReturns(res) ==
    /\ jobs' = [jobs EXCEPT ![i] = JobAfterRun(@, now)]
    /\ mark_count' = CountUp(mark_count)
    /\ last' = [NoEvent EXCEPT !.op = "returned"]
    /\ BackToCaller(res)

(* run_job lines 50-60: job.run raised exc *)
RunJobCatches(exc) ==
    /\ jobs' = [jobs EXCEPT ![i] = JobAfterException(@, now)]
    /\ mark_count' = CountUp(mark_count)
    /\ last' = [NoEvent EXCEPT !.op = "raised"]
    /\ BackToCaller(ExceptionResult(jobs[i].id, exc))

agent_ids == DictGet(jobs[i].config, "agents", <<>>)

(* run lines 21-29: no agents configured *)
RunNoAgents ==
    /\ pc = "run_job"
    /\ agent_ids = <<>>
    /\ ran' = ran \cup {i}
    /\ run_count' = CountUp(run_count)
    /\ arch0' = Archived(where)
    /\ fails' = 0
    /\ RunJobReturns(NoAgentsResult(jobs[i].id))
    /\ cands' = 0
    /\ unarchived' = NewRun(unarchived)
    /\ UNCHANGED <<tried, honest,
                   refused, cfgVars, now, passes, fsVars>>

(* run lines 21-32: the loop over the agents starts *)
RunBegin ==
    /\ pc = "run_job"
    /\ agent_ids # <<>>
    /\ ran' = ran \cup {i}
    /\ run_count' = CountUp(run_count)
    /\ arch0' = Archived(where)
    /\ fails' = 0
    /\ pc' = "agents"
    /\ k' = 1
    /\ total_uploaded' = 0
    /\ errors' = <<>>
    /\ last' = NoEvent
    /\ cands' = 0
    /\ unarchived' = NewRun(unarchived)
    /\ UNCHANGED <<mark_count, tried, honest,
                   refused, cfgVars,
                   jobs, i, now, passes, agentVars, fsVars, result,
                   exit_code>>

AgentKnown(agent_id) == agent_id \in DOMAIN ConfigAgents

(* run lines 35-38 *)
AgentNotFound ==
    /\ pc = "agents"
    /\ k <= Len(agent_ids)
    /\ ~AgentKnown(agent_ids[k])
    /\ errors' = Append(errors, Err("agent_not_found", agent_ids[k], 0))
    /\ k' = k + 1
    /\ last' = NoEvent
    /\ UNCHANGED <<cands, mark_count, attemptVars,
                   ghostVars, cfgVars,
                   pc, jobs, i, now, passes, total_uploaded,
                   agentVars, fsVars, result, exit_code, ran, run_count>>

(* run line 40: Path() of a sessions_dir that is no string raises TypeError, *)
(* which leaves run and is caught by run_job                                 *)
AgentPathRaises ==
    /\ pc = "agents"
    /\ k <= Len(agent_ids)
    /\ AgentKnown(agent_ids[k])
    /\ ConfigAgents[agent_ids[k]].sessions_dir = NotAString
    /\ RunJobCatches("TypeError")
    /\ UNCHANGED <<cands, attemptVars,
                   ghostVars, cfgVars, now, passes, fsVars, ran, run_count>>

(* run lines 41-43 *)
AgentDirMissing ==
    /\ pc = "agents"
    /\ k <= Len(agent_ids)
    /\ AgentKnown(agent_ids[k])
    /\ ConfigAgents[agent_ids[k]].sessions_dir # NotAString
    /\ ConfigAgents[agent_ids[k]].sessions_dir \notin Dirs
    /\ k' = k + 1
    /\ last' = NoEvent
    /\ UNCHANGED <<cands, mark_count, attemptVars,
                   ghostVars, cfgVars,
                   pc, jobs, i, now, passes, total_uploaded, errors,
                   agentVars, fsVars, result, exit_code, ran, run_count>>

(* run lines 45-50 and _process_agent lines 78-91: read the active set,    *)
(* list the candidates; with none, _process_agent returns (0, [])          *)
ProcessAgent ==
    /\ pc = "agents"
    /\ k <= Len(agent_ids)
    /\ AgentKnown(agent_ids[k])
    /\ ConfigAgents[agent_ids[k]].sessions_dir \in Dirs
    /\ LET sessions_dir == ConfigAgents[agent_ids[k]].sessions_dir
           active == _get_active_sessions(sessionsJson[sessions_dir])
           found == _find_completed_sessions(sessions_dir, active, where)
       IN  IF found = {}
           THEN /\ k' = k + 1
                /\ UNCHANGED <<pc, agentVars>>
           ELSE /\ pc' = "sessions"
                /\ uploaded' = 0
                /\ agent_errors' = <<>>
                /\ active_sessions' = active
                /\ completed' = found
                /\ UNCHANGED k
    /\ cands' = cands + Cardinality(
                    _find_completed_sessions(
                        ConfigAgents[agent_ids[k]].sessions_dir,
                        _get_active_sessions(
                            sessionsJson[ConfigAgents[agent_ids[k]]
                                             .sessions_dir]),
                        where))
    /\ last' = NoEvent
    /\ UNCHANGED <<mark_count, attemptVars,
                   ghostVars, cfgVars,
                   jobs, i, now, passes, total_uploaded, errors,
                   fsVars, result, exit_code, ran, run_count>>

(* run lines 52-53: _process_agent returned *)
ProcessAgentReturns ==
    /\ pc = "sessions"
    /\ completed = {}
    /\ total_uploaded' = total_uploaded + uploaded
    /\ errors' = errors \o agent_errors
    /\ k' = k + 1
    /\ pc' = "agents"
    /\ uploaded' = 0
    /\ agent_errors' = <<>>
    /\ active_sessions' = {}
    /\ last' = NoEvent
    /\ UNCHANGED <<cands, mark_count, attemptVars,
                   ghostVars, cfgVars,
                   jobs, i, now, passes, completed, fsVars, result,
                   exit_code, ran, run_count>>

(* run lines 55-68, then run_job lines 40-48 *)
RunReturns ==
    /\ pc = "agents"
    /\ k > Len(agent_ids)
    /\ RunJobReturns(RunResult(jobs[i].id, total_uploaded, errors))
    /\ UNCHANGED <<cands, attemptVars,
                   ghostVars, cfgVars, now, passes, fsVars, ran, run_count>>

(***************************************************************************)
(* _process_agent lines 94-119: one candidate.                             *)
(***************************************************************************)
(* _upload_session: what becomes of the upload of the file at path p, when *)
(* the network would answer net.  A request is posted in the outcomes      *)
(* "accepted", "rejected" and "request_exception" only.                    *)
UploadOutcome(p, w, net) ==
    IF w[p.file] # p.sub THEN "stat_error"                    \* line 181 raises
    ELSE IF SizeRefused(Size(p.file)) THEN "oversize"         \* lines 182-187
    ELSE IF ~FileTable[p.file].utf8 THEN "decode_error"       \* line 190 raises
    ELSE IF net.kind = "RequestException" THEN "request_exception"
    ELSE IF ResponseIsSuccess(net.status) THEN "accepted"
    ELSE "rejected"

Posted(outcome) == outcome \in {"accepted", "rejected", "request_exception"}

NoRequest == [kind |-> "none", status |-> 0]

(* the answers to choose from: none when no request is made for p *)
NetChoices(p, w) ==
    IF Sid(p.file) # NoId /\ Posted(UploadOutcome(p, w, NoRequest))
    THEN NetOutcomes
    ELSE {NoRequest}

(* the move into archive/ is attempted after an accepted upload only, and  *)
(* then it succeeds or raises                                              *)
MoveChoices(net) ==
    IF net.kind = "response" /\ ResponseIsSuccess(net.status)
    THEN BOOLEAN
    ELSE {FALSE}

(* _archive_session: the move into archive/; a file of that name already   *)
(* there is replaced                                                       *)
MoveLeavesFile(p, w) == w

_archive_session(p, w) ==
    IF p.sub = "archive" THEN w
    ELSE [g \in Files |->
            IF g = p.file THEN "archive"
            ELSE IF /\ w[g] = "archive"
                    /\ Dir(g) = Dir(p.file)
                    /\ Name(g) = Name(p.file)
                 THEN "absent"
                 ELSE w[g]]

(* the endpoint stores the transcript posted for (agent, session id) *)
RemoteStore(f, r) ==
    { g \in r : ~(Dir(g) = Dir(f) /\ Sid(g) = Sid(f)) } \cup {f}

(* the endpoint holds a transcript for the (agent, session id) of f *)
RemoteHas(f, r) == \E g \in r : Dir(g) = Dir(f) /\ Sid(g) = Sid(f)

(* the assumption on the endpoint: 409 only for a session it holds *)
HonestAnswer(f, net, r) ==
    (net.kind = "response" /\ net.status = 409) => RemoteHas(f, r)

(* _process_agent line 94: the loop goes on with the candidates left,      *)
(* whatever became of this one (the try of lines 101-119 is inside it)     *)
StopAtFailure(cs, p, outcome) ==
    IF outcome = "archived" THEN cs \ {p} ELSE {}

RestOfLoop(cs, p, outcome) == cs \ {p}

ProcessSession ==
    /\ pc = "sessions"
    /\ completed # {}
    /\ \E p \in completed :
       \E net \in NetChoices(p, where) :
       \E move_raises \in MoveChoices(net) :
         LET f == p.file
             session_id == Sid(f)
             up == UploadOutcome(p, where, net)
             outcome ==
                 IF session_id = NoId THEN "invalid_name"
                 ELSE IF up = "accepted"
                      THEN (IF move_raises THEN "archive_error" ELSE "archived")
                      ELSE up
         IN  /\ completed' = RestOfLoop(completed, p, outcome)
             /\ tried' = [tried EXCEPT ![f] = @ + 1]
             /\ unarchived' = [unarchived EXCEPT ![f] =
                                  IF outcome = "archive_error"
                                  THEN "this_run" ELSE "no"]
             /\ honest' = (honest /\ HonestAnswer(f, net, remote))
             /\ where' = IF outcome = "archived"
                          THEN _archive_session(p, where)
                          ELSE where
             /\ remote' = IF /\ outcome \in {"archived", "archive_error"}
                              /\ net.status = 200
                           THEN RemoteStore(f, remote)
                           ELSE remote
             /\ uploaded' = IF outcome = "archived"
                             THEN uploaded + 1 ELSE uploaded
             /\ agent_errors' =
                    CASE outcome = "archived" -> agent_errors
                      [] outcome = "invalid_name" ->
                           Append(agent_errors,
                                  Err("invalid_filename", agent_ids[k], f))
                      [] outcome \in {"oversize", "rejected",
                                      "request_exception"} ->
                           Append(agent_errors,
                                  Err("upload_failed", agent_ids[k], f))
                      [] OTHER ->
                           Append(agent_errors,
                                  Err("error_uploading", agent_ids[k], f))
             /\ last' = [op |-> "session", file |-> f, sub |-> p.sub,
                          outcome |-> outcome,
                          posted |-> session_id # NoId /\ Posted(up),
                          status |-> IF session_id # NoId /\ Posted(up)
                                     THEN net.status ELSE 0,
                          nerr |-> Len(agent_errors), nup |-> uploaded,
                          due |-> FALSE]
             /\ refused' = IF outcome = "oversize"
                            THEN refused \cup {f} ELSE refused
             /\ fails' = IF outcome = "archived" THEN fails ELSE fails + 1
    /\ UNCHANGED <<cands, mark_count,
                   cfgVars, pc, jobs, i, now, passes, runVars,
                   active_sessions, sessionsJson, result, exit_code, ran,
                   run_count, arch0>>

(***************************************************************************)
(* The agent runtime: a session ends, its id leaves sessions.json.         *)
(***************************************************************************)
SessionEnds ==
    /\ pc \notin {"main", "exit"}
    /\ \E d \in Dirs :
         \E id \in sessionsJson[d].keys :
            sessionsJson' = [sessionsJson EXCEPT ![d].keys = @ \ {id}]
    /\ UNCHANGED <<cands, mark_count, attemptVars,
                   ghostVars, cfgVars,
                   pc, jobs, i, now, passes, runVars, agentVars,
                   where, remote, result, exit_code, last, ran, run_count>>

Next ==
    \/ RunSingleJob
    \/ RunScheduler
    \/ PollSkipDisabled
    \/ PollSkipNotDue
    \/ PollRunJob
    \/ PollSleep
    \/ RunNoAgents
    \/ RunBegin
    \/ AgentNotFound
    \/ AgentPathRaises
    \/ AgentDirMissing
    \/ ProcessAgent
    \/ ProcessSession
    \/ ProcessAgentReturns
    \/ RunReturns
    \/ SessionEnds

Spec == Init /\ [][Next]_vars

(***************************************************************************)
(* A job alone with the clock (jobs/base.py): the clock ticks in seconds,  *)
(* mark_run and is_due are called at any time.                             *)
(***************************************************************************)
InitDue ==
    /\ args = [job |-> ""]
    /\ config = [jobs |-> <<>>]
    /\ pc = "due"
    /\ \E interval \in 1..MaxInterval :
          jobs = << NewJob("j1", SU, TRUE, interval, [agents |-> <<>>]) >>
    /\ i = 1
    /\ now = 0
    /\ passes = 0
    /\ k = 0 /\ total_uploaded = 0 /\ errors = <<>>
    /\ uploaded = 0 /\ agent_errors = <<>>
    /\ active_sessions = {} /\ completed = {}
    /\ result = Nothing
    /\ exit_code = Nothing
    /\ where = [f \in Files |-> "absent"]
    /\ sessionsJson = [d \in Dirs |-> [kind |-> "missing", keys |-> {}]]
    /\ remote = {}
    /\ last = NoEvent
    /\ ran = {}
    /\ run_count = 0
    /\ refused = {}
    /\ arch0 = {}
    /\ fails = 0
    /\ cands = 0
    /\ mark_count = 0
    /\ tried = [f \in Files |-> 0]
    /\ unarchived = [f \in Files |-> "no"]
    /\ honest = TRUE

dueFrame == <<cfgVars, pc, i, passes, runVars, agentVars, result, exit_code,
              fsVars, ran, run_count, ghostVars, cands, mark_count,
              attemptVars>>

(* a second of wall-clock time passes *)
ClockTick ==
    /\ pc = "due"
    /\ now < MaxClock
    /\ now' = now + 1
    /\ last' = NoEvent
    /\ UNCHANGED <<jobs, dueFrame>>

(* Job.mark_run *)
CallMarkRun ==
    /\ pc = "due"
    /\ jobs' = [jobs EXCEPT ![1] = mark_run(@, now)]
    /\ last' = [NoEvent EXCEPT !.op = "mark_run"]
    /\ UNCHANGED <<now, dueFrame>>

(* Job.is_due: its value is recorded, nothing else changes *)
CallIsDue ==
    /\ pc = "due"
    /\ last' = [NoEvent EXCEPT !.op = "is_due", !.due = is_due(jobs[1], now)]
    /\ UNCHANGED <<jobs, now, dueFrame>>

NextDue == ClockTick \/ CallMarkRun \/ CallIsDue

SpecDue == InitDue /\ [][NextDue]_vars

(***************************************************************************)
(* The poll loop without an end (run_scheduler lines 82-92).  is_due looks *)
(* only at now - last_run, so once the clock has reached LiveClock the     *)
(* sleep moves the last_run of every job back instead of moving the clock  *)
(* on; a last_run that would go below 0 stays 0, where the job is due for  *)
(* every interval up to MaxInterval.                                       *)
(***************************************************************************)
LiveClock == MaxInterval * SECONDS_PER_MINUTE

SleepClock(t) ==
    IF t + SLEEP_SECONDS <= LiveClock THEN t + SLEEP_SECONDS ELSE LiveClock

SleepShift(job, t) ==
    IF job.last_run = Nothing \/ t + SLEEP_SECONDS <= LiveClock
    THEN job
    ELSE LET back == job.last_run[1] - (t + SLEEP_SECONDS - LiveClock)
         IN  [job EXCEPT !.last_run = Some(IF back < 0 THEN 0 ELSE back)]

InitLive ==
    /\ Init
    /\ ~SingleMode
    /\ Cardinality({ f \in Files : where[f] # "absent" }) <= MaxLiveFiles

(* run_scheduler line 92, in the passes after MaxPasses *)
PollSleepOn ==
    /\ pc = "poll"
    /\ i > Len(jobs)
    /\ passes >= MaxPasses
    /\ now' = SleepClock(now)
    /\ jobs' = [j \in DOMAIN jobs |-> SleepShift(jobs[j], now)]
    /\ i' = 1
    /\ ran' = {}
    /\ last' = NoEvent
    /\ result' = Nothing
    /\ arch0' = {}
    /\ fails' = 0
    /\ cands' = 0
    /\ tried' = [f \in Files |-> 0]
    /\ UNCHANGED <<mark_count, unarchived, honest, refused, cfgVars,
                   pc, passes, runVars, agentVars, fsVars, run_count,
                   exit_code>>

(* the steps of the worker process itself *)
WorkerNext ==
    \/ RunScheduler
    \/ PollSkipDisabled
    \/ PollSkipNotDue
    \/ PollRunJob
    \/ PollSleep
    \/ PollSleepOn
    \/ RunNoAgents
    \/ RunBegin
    \/ AgentNotFound
    \/ AgentPathRaises
    \/ AgentDirMissing
    \/ ProcessAgent
    \/ ProcessSession
    \/ ProcessAgentReturns
    \/ RunReturns

NextLive ==
    \/ WorkerNext
    \/ SessionEnds

(* the worker is a sequential program that keeps taking its next step:     *)
(* every call (job.run, the request with its timeout, the sleep) returns   *)
(* or raises in finite time                                                *)
SpecLive == InitLive /\ [][NextLive]_vars /\ WF_vars(WorkerNext)

(***************************************************************************)
(* Properties.                                                             *)
(***************************************************************************)
(* the sessions directory of the agent being processed *)
AgentDir == ConfigAgents[agent_ids[k]].sessions_dir

(* the last candidate step posted a request that was answered 200 or 409 *)
Answered200or409 == last.posted /\ last.status \in {200, 409}

(* C1, as stated: after the step of a candidate, the file is in archive/   *)
(* if and only if its upload was answered 200 or 409; otherwise it is      *)
(* still in the sessions directory and one error was recorded for it.      *)
C1_ArchivedIffAnswered ==
    last.op = "session" =>
        /\ (where[last.file] = "archive") <=> Answered200or409
        /\ ~Answered200or409 =>
              /\ where[last.file] = "sessions"
              /\ Len(agent_errors) = last.nerr + 1

(* C1, amended: the file is in archive/ if and only if its upload was      *)
(* answered 200 or 409 and the move into archive/ did not raise; then it   *)
(* is counted and no error is recorded.  In every other outcome (413, any  *)
(* other status, a transport failure, the size refusal, an exception of    *)
(* the upload or of the move) it is still in the sessions directory, one   *)
(* error was recorded for it and it is not counted.                        *)
C1_ArchivedIffAnsweredAndMoved ==
    last.op = "session" =>
        LET moved == Answered200or409 /\ last.outcome # "archive_error"
        IN  /\ (where[last.file] = "archive") <=> moved
            /\ moved => /\ Len(agent_errors) = last.nerr
                         /\ uploaded = last.nup + 1
            /\ ~moved => /\ where[last.file] = "sessions"
                          /\ Len(agent_errors) = last.nerr + 1
                          /\ uploaded = last.nup

(* a candidate answered 409 has just been archived *)
C1_Witness ==
    /\ last.op = "session"
    /\ last.status = 409
    /\ where[last.file] = "archive"

(* C2: the candidates of a scan, and the files a request is posted for,    *)
(* lie directly in the sessions directory, never in archive/; and a file   *)
(* in archive/ never comes back into the sessions directory, so that once  *)
(* archived it is no candidate of any later run.                           *)
CandidatesInSessionsDir ==
    /\ \A p \in completed : p.sub = "sessions" /\ where[p.file] = "sessions"
    /\ last.op = "session" => last.sub = "sessions"

ArchivedNeverReturns ==
    \A f \in Files : where[f] = "archive" => where'[f] # "sessions"

C2_ArchivedNeverCandidate ==
    [](CandidatesInSessionsDir) /\ [][ArchivedNeverReturns]_vars

(* a later run has just listed its candidates in a directory whose         *)
(* archive/ holds a file that an earlier run moved there                   *)
C2_Witness ==
    /\ pc = "sessions"
    /\ last.op = "none"
    /\ run_count >= 2
    /\ \E f \in Files : /\ where[f] = "archive"
                        /\ ~StartsArchived(f)
                        /\ Dir(f) = AgentDir
                        /\ f \in arch0

(* C3: no candidate, and no file a candidate step handled, has an id that  *)
(* was a key of sessions.json when _process_agent read it.                 *)
C3_ActiveNeverCandidate ==
    /\ \A p \in completed : Sid(p.file) \notin active_sessions
    /\ last.op = "session" => Sid(last.file) \notin active_sessions

(* a request was posted for a completed file while a file of an active     *)
(* session lies beside it                                                  *)
C3_Witness ==
    /\ last.op = "session"
    /\ last.posted
    /\ \E f \in Files : /\ where[f] = "sessions"
                        /\ Dir(f) = Dir(last.file)
                        /\ MatchTable[f]
                        /\ Sid(f) # NoId
                        /\ Sid(f) \in active_sessions

(* the job whose run has just returned to its caller *)
ReturnedJob == jobs[IF SingleMode THEN i ELSE i - 1]
ReturnedAgentIds == DictGet(ReturnedJob.config, "agents", <<>>)

(* a file the glob lists whose name yields no session id *)
Malformed(f) == MatchTable[f] /\ Sid(f) = NoId

(* C4, as stated: when a run has returned, every malformed *.jsonl* file   *)
(* lying in the sessions directory of one of its agents has an "Invalid    *)
(* session filename" entry in the result's errors (and is still there).    *)
C4_MalformedReported ==
    last.op = "returned" =>
        \A f \in Files :
        \A n \in 1..Len(ReturnedAgentIds) :
            LET a == ReturnedAgentIds[n]
            IN  ( /\ AgentKnown(a)
                  /\ ConfigAgents[a].sessions_dir = Dir(f)
                  /\ where[f] = "sessions"
                  /\ Malformed(f) )
                => \E m \in 1..Len(result[1].errors) :
                      result[1].errors[m] = Err("invalid_filename", a, f)

(* C5, as stated: a candidate of at most MAX_TRANSCRIPT_BYTES leads to a   *)
(* request; a larger one leads to none, is recorded as failed, stays in    *)
(* the sessions directory, and is a candidate of every later scan.         *)
OversizeRefused ==
    /\ last.op = "session" /\ Size(last.file) > MAX_TRANSCRIPT_BYTES =>
          /\ ~last.posted
          /\ where[last.file] = "sessions"
          /\ Len(agent_errors) = last.nerr + 1
          /\ uploaded = last.nup
          /\ last.file \in refused
    /\ pc = "sessions" /\ last.op = "none" =>
          \A f \in refused :
              Dir(f) = AgentDir => Path("sessions", f) \in completed

C5_SizeBoundary ==
    /\ last.op = "session" /\ Size(last.file) <= MAX_TRANSCRIPT_BYTES =>
          last.posted
    /\ OversizeRefused

(* C5, amended: a candidate of at most MAX_TRANSCRIPT_BYTES whose content  *)
(* decodes as UTF-8 leads to a request (one that does not decode raises    *)
(* before any request); the rest as stated.                                *)
C5_SizeBoundaryOfReadableFiles ==
    /\ ( /\ last.op = "session"
          /\ Size(last.file) <= MAX_TRANSCRIPT_BYTES
          /\ FileTable[last.file].utf8 ) => last.posted
    /\ ( /\ last.op = "session"
          /\ ~FileTable[last.file].utf8 ) => ~last.posted
    /\ OversizeRefused

(* a request has just been posted for a file of exactly the limit, in a    *)
(* run later than one that refused an oversized file                       *)
C5_Witness ==
    /\ last.op = "session"
    /\ Size(last.file) = MAX_TRANSCRIPT_BYTES
    /\ last.posted
    /\ refused # {}
    /\ run_count >= 2

(* C6: a job with no prior run is due; after mark_run at time t, is_due is *)
(* false at every time before t + I*60 seconds and true from then on; and  *)
(* a call of is_due changes neither last_run nor anything else of the job. *)
DueExactlyFromInterval ==
    last.op = "is_due" =>
        IF jobs[1].last_run = Nothing
        THEN last.due
        ELSE last.due <=>
                now >= jobs[1].last_run[1] + jobs[1].interval_minutes * 60

C6_DueAfterInterval ==
    /\ [](DueExactlyFromInterval)
    /\ [][last'.op = "is_due" => UNCHANGED <<jobs, now>>]_vars

(* is_due has just answered true exactly I*60 seconds after a mark_run *)
C6_Witness ==
    /\ last.op = "is_due"
    /\ last.due
    /\ jobs[1].last_run # Nothing
    /\ jobs[1].interval_minutes = 2
    /\ now = jobs[1].last_run[1] + 120

(* C7: when job.run raises, run_job returns to its caller a result with    *)
(* success false, no items and the failure text as its only error, and the *)
(* job's last_run is set, so that is_due is false for the next             *)
(* interval_minutes.                                                       *)
C7_RaiseBecomesFailedResult ==
    last.op = "raised" =>
        /\ pc \in {"poll", "exit"}
        /\ result # Nothing
        /\ ~result[1].success
        /\ result[1].items_processed = 0
        /\ result[1].errors = << ExcText("TypeError") >>
        /\ result[1].job_id = ReturnedJob.id
        /\ ReturnedJob.last_run = Some(now)
        /\ \A d \in 0..(ReturnedJob.interval_minutes * 60 - 1) :
              ~is_due(ReturnedJob, now + d)

(* under the poll loop, a run has just raised *)
C7_Witness ==
    /\ last.op = "raised"
    /\ pc = "poll"
    /\ passes = 1

(* C8: when a run has returned, items_processed is the number of files the *)
(* run moved into archive/, errors has one entry per failed candidate and  *)
(* per agent id that is not in the registry, and success is true exactly   *)
(* when errors is empty or items_processed >= 1.                           *)
C8_ResultAggregates ==
    last.op = "returned" =>
        LET r == result[1]
            moved == Archived(where) \ arch0
            unknown == { n \in 1..Len(ReturnedAgentIds) :
                           ~AgentKnown(ReturnedAgentIds[n]) }
        IN  /\ r.items_processed = Cardinality(moved)
            /\ Len(r.errors) = fails + Cardinality(unknown)
            /\ r.success <=> (Len(r.errors) = 0 \/ r.items_processed >= 1)

(* a run over two agents has returned with uploads and errors: a success *)
C8_Witness ==
    /\ last.op = "returned"
    /\ result[1].success
    /\ result[1].items_processed >= 2
    /\ Len(result[1].errors) >= 1

(* C9: under the poll loop the jobs are those of the configuration, in its *)
(* order; the job being run is enabled and due; the jobs run in this pass  *)
(* come before the one considered, are enabled and have completed (their   *)
(* last_run is set to the time of the pass); the jobs passed over in this  *)
(* pass are disabled or not due.                                           *)
DueAt(job, t) ==
    job.last_run = Nothing
    \/ t - job.last_run[1] >= job.interval_minutes * 60

KnownConfigs == SelectSeq(config.jobs, LAMBDA jc : jc.type = "session_upload")

C9_PollOrder ==
    (~SingleMode /\ pc \in {"poll", "run_job", "agents", "sessions"}) =>
        /\ Len(jobs) = Len(KnownConfigs)
        /\ \A n \in 1..Len(jobs) : jobs[n].id = KnownConfigs[n].id
        /\ pc # "poll" => /\ jobs[i].enabled
                          /\ DueAt(jobs[i], now)
                          /\ ran \subseteq 1..i
        /\ pc = "poll" => ran \subseteq 1..(i - 1)
        /\ \A j \in ran : jobs[j].enabled
        /\ \A j \in ran :
              (j < i \/ pc = "poll") => jobs[j].last_run = Some(now)
        /\ \A j \in (1..(i - 1)) \ ran :
              ~jobs[j].enabled \/ ~DueAt(jobs[j], now)

(* the second pass is over: the first job ran again, the second, enabled,  *)
(* was not due                                                             *)
C9_Witness ==
    /\ ~SingleMode
    /\ pc = "poll"
    /\ passes = 1
    /\ Len(jobs) = 2
    /\ i > Len(jobs)
    /\ ran = {1}
    /\ jobs[2].enabled

(* C10: with --job naming a configured job of a known type, the poll loop  *)
(* is never entered, job.run is called at most once, and when the process  *)
(* has exited it was called exactly once and its result was returned,      *)
(* whatever the job's enabled flag.                                        *)
SingleJobKnown ==
    \E n \in 1..Len(config.jobs) :
        /\ config.jobs[n].id = args.job
        /\ config.jobs[n].type = "session_upload"
        /\ \A m \in 1..(n - 1) : config.jobs[m].id # args.job

C10_SingleRunsOnce ==
    (SingleMode /\ SingleJobKnown) =>
        /\ pc # "poll"
        /\ passes = 0
        /\ run_count <= 1
        /\ pc = "exit" => /\ run_count = 1
                          /\ result # Nothing
                          /\ result[1].job_id = args.job

(* a disabled job was run by --job and the process has exited *)
C10_Witness ==
    /\ SingleMode
    /\ pc = "exit"
    /\ run_count = 1
    /\ result # Nothing
    /\ ~jobs[1].enabled

(* C11, as stated: when the scheduler is started (no --job) and no job of a *)
(* known type is configured, the poll loop is not entered and the process  *)
(* exits with a non-zero code; in single-job mode the exit code is         *)
(* non-zero exactly when there is no successful result.                    *)
C11_NoJobsIsFatal ==
    pc = "exit" =>
        /\ exit_code # Nothing
        /\ passes = 0
        /\ IF SingleMode
           THEN (exit_code[1] # 0) <=>
                    (result = Nothing \/ ~result[1].success)
           ELSE /\ CreateJobs(config.jobs) = <<>>
                /\ exit_code[1] # 0

(* C12: within a run, every agent id gone through that is not in the       *)
(* registry has its "agent not found" entry in errors and the loop went on *)
(* to the next id; every candidate found so far has had its attempt        *)
(* (archived or failed, a failure adding one error) or still awaits it in  *)
(* the loop; and a run returns only after the whole agent list was gone    *)
(* through, with every candidate found archived or failed.                 *)
NotFoundSoFar(errs) ==
    Len(SelectSeq(errs, LAMBDA x : x.kind = "agent_not_found"))

UnknownBefore(n) ==
    Cardinality({ m \in 1..(n - 1) : ~AgentKnown(agent_ids[m]) })

EveryCandidateAttempted ==
    /\ pc = "agents" =>
          /\ NotFoundSoFar(errors) = UnknownBefore(k)
          /\ cands = total_uploaded + fails
          /\ Len(errors) = fails + UnknownBefore(k)
    /\ pc = "sessions" =>
          /\ NotFoundSoFar(errors) = UnknownBefore(k)
          /\ cands = total_uploaded + uploaded + fails + Cardinality(completed)
          /\ Len(errors) + Len(agent_errors) = fails + UnknownBefore(k)
    /\ (last.op = "returned" /\ ReturnedAgentIds # <<>>) =>
          cands = result[1].items_processed + fails

AgentLoopGoesOn ==
    /\ ( /\ pc = "agents"
         /\ k <= Len(agent_ids)
         /\ ~AgentKnown(agent_ids[k])
         /\ k' # k )
       => /\ pc' = "agents"
          /\ k' = k + 1
          /\ errors' = Append(errors, Err("agent_not_found", agent_ids[k], 0))
    /\ (pc = "agents" /\ last'.op = "returned") => k > Len(agent_ids)
    /\ (pc = "sessions" /\ pc' # "sessions") => completed = {}

C12_FailureDoesNotStopTheRest ==
    [](EveryCandidateAttempted) /\ [][AgentLoopGoesOn]_vars

(* after an unknown agent id and a failed candidate, a later candidate has *)
(* just been archived                                                      *)
C12_Witness ==
    /\ last.op = "session"
    /\ last.outcome = "archived"
    /\ fails >= 1
    /\ Len(errors) >= 1
    /\ errors[1].kind = "agent_not_found"

(* C13: under the poll loop a run that has returned or raised leaves the   *)
(* loop at the next job of the pass, the process never exits, and every    *)
(* enabled job created from the configuration has a run that ends, again   *)
(* and again (a run in every pass in which it is due).                     *)
JobIndexes == UNION { DOMAIN job_configs : job_configs \in JobLists }

RunEnded(j) ==
    /\ last.op \in {"returned", "raised"}
    /\ pc = "poll"
    /\ i = j + 1

LoopGoesOn ==
    /\ last.op \in {"returned", "raised"} => pc = "poll" /\ i <= Len(jobs) + 1
    /\ exit_code = Nothing
    /\ pc # "exit"

RunsAgain(j) ==
    [](( /\ pc # "main"
         /\ j <= Len(jobs)
         /\ jobs[j].enabled ) => <>RunEnded(j))

C13_LoopNeverBlocked ==
    /\ [](jobs # <<>> => LoopGoesOn)
    /\ \A j \in JobIndexes : RunsAgain(j)

(* in a pass after the second, a run has raised once more *)
C13_Witness ==
    /\ last.op = "raised"
    /\ pc = "poll"
    /\ now > SLEEP_SECONDS
    /\ run_count >= MaxRuns

(* C14, as stated: under the poll loop no session file is the subject of   *)
(* more than one upload attempt within one pass of the loop over the jobs. *)
C14_OneAttemptPerCycle ==
    ~SingleMode => \A f \in Files : tried[f] <= 1

WellFormedIn(d) ==
    { Path("sessions", f) : f \in { g \in Files : /\ Dir(g) = d
                                                  /\ where[g] = "sessions"
                                                  /\ MatchTable[g]
                                                  /\ Sid(g) # NoId } }

NoActiveSetWithoutMapping ==
    /\ pc = "sessions" /\ sessionsJson[AgentDir].kind # "dict" =>
          active_sessions = {}
    /\ last.op = "raised" =>
          \E n \in 1..Len(ReturnedAgentIds) :
              /\ AgentKnown(ReturnedAgentIds[n])
              /\ ConfigAgents[ReturnedAgentIds[n]].sessions_dir = NotAString

LenientStep ==
    (pc = "agents" /\ k <= Len(agent_ids) /\ AgentKnown(agent_ids[k])) =>
        /\ AgentDir \notin Dirs /\ AgentDir # NotAString =>
              /\ errors' = errors
              /\ pc' = "agents"
              /\ k' \in {k, k + 1}
              /\ UNCHANGED <<where, remote, total_uploaded>>
        /\ AgentDir \in Dirs /\ sessionsJson[AgentDir].kind # "dict" =>
              /\ errors' = errors
              /\ pc' \in {"agents", "sessions"}
              /\ pc' = "sessions" => /\ completed' = WellFormedIn(AgentDir)
                                     /\ active_sessions' = {}
                                     /\ agent_errors' = <<>>
              /\ (pc' = "agents" /\ k' # k) => WellFormedIn(AgentDir) = {}

C16_LenientDegradation ==
    [](NoActiveSetWithoutMapping) /\ [][LenientStep]_vars

(* a file lying beside an unreadable sessions.json has been archived, in a *)
(* run whose first agent has no sessions directory; no error so far        *)
C16_Witness ==
    /\ last.op = "session"
    /\ last.outcome = "archived"
    /\ sessionsJson[Dir(last.file)].kind = "unreadable"
    /\ agent_ids[1] = "nodir"
    /\ Len(errors) = 0

(* C17, as stated: no step makes a transcript disappear: a file that is in *)
(* the sessions directory or in archive/ is in one of the two after every  *)
(* step (its content is the file itself, which no step edits), so that     *)
(* archiving never removes or replaces a file archived before.             *)
TranscriptsKept ==
    \A f \in Files : where[f] # "absent" => where'[f] # "absent"

C17_NoTranscriptLost == [][TranscriptsKept]_vars

(* C18: when a run has returned, items_processed is the number of files it *)
(* moved into archive/; a candidate whose upload was answered 200 or 409   *)
(* and whose move raised is not counted, adds one error and stays in the   *)
(* sessions directory.  Common to the claim as stated and as amended.      *)
AcceptedUnarchivedStays ==
    /\ last.op = "returned" =>
          result[1].items_processed = Cardinality(Archived(where) \ arch0)
    /\ (last.op = "session" /\ last.outcome = "archive_error") =>
          /\ Answered200or409
          /\ uploaded = last.nup
          /\ Len(agent_errors) = last.nerr + 1
          /\ where[last.file] = "sessions"
          /\ unarchived[last.file] = "this_run"
    /\ \A f \in Files : unarchived[f] # "no" => where[f] = "sessions"

(* the step is an upload attempt for f *)
Attempts(f) == tried'[f] = tried[f] + 1

(* the next scan of its directory lists such a file (its id not being in   *)
(* sessions.json then), and its next attempt posts a request               *)
UnarchivedRetried ==
    \A f \in Files :
        unarchived[f] # "no" =>
            /\ ( /\ pc = "agents"
                 /\ k <= Len(agent_ids)
                 /\ AgentKnown(agent_ids[k])
                 /\ AgentDir = Dir(f)
                 /\ Sid(f) \notin _get_active_sessions(sessionsJson[Dir(f)])
                 /\ (k' # k \/ pc' # pc) )
               => /\ pc' = "sessions"
                  /\ Path("sessions", f) \in completed'
            /\ Attempts(f) => last'.posted /\ last'.file = f

KeysEver == UNION { sj.keys : sj \in SessionsJsonStates }

NeverActive(f) ==
    sessionsJson[Dir(f)].kind # "dict" \/ Sid(f) \notin KeysEver

Uploadable(f) ==
    /\ MatchTable[f]
    /\ Sid(f) # NoId
    /\ Size(f) <= MAX_TRANSCRIPT_BYTES
    /\ NeverActive(f)

AgentsOf(job) == DictGet(job.config, "agents", <<>>)

(* job names, at place n of its agent list, the agent of f's directory *)
NamesAt(job, n, f) ==
    /\ n \in 1..Len(AgentsOf(job))
    /\ AgentKnown(AgentsOf(job)[n])
    /\ ConfigAgents[AgentsOf(job)[n]].sessions_dir = Dir(f)

(* ... and no agent before it in the list makes the run raise *)
ReachedAt(job, n, f) ==
    /\ NamesAt(job, n, f)
    /\ \A m \in 1..(n - 1) :
          AgentKnown(AgentsOf(job)[m]) =>
              ConfigAgents[AgentsOf(job)[m]].sessions_dir # NotAString

Waiting(f) ==
    /\ pc # "main"
    /\ where[f] = "sessions"
    /\ Uploadable(f)
    /\ \E j \in 1..Len(jobs) :
          jobs[j].enabled /\ \E n \in 1..Len(AgentsOf(jobs[j])) :
                                 NamesAt(jobs[j], n, f)

WaitingReached(f) ==
    /\ pc # "main"
    /\ where[f] = "sessions"
    /\ Uploadable(f)
    /\ \E j \in 1..Len(jobs) :
          jobs[j].enabled /\ \E n \in 1..Len(AgentsOf(jobs[j])) :
                                 ReachedAt(jobs[j], n, f)

(* no request for f is answered otherwise than 200 or 409 *)
AnsweredOk(f) ==
    (last.op = "session" /\ last.file = f /\ last.posted) =>
        last.status \in {200, 409}

(* no attempt for f ends otherwise than with f in archive/ *)
AttemptSucceeds(f) ==
    (last.op = "session" /\ last.file = f) => last.outcome = "archived"

(* a run of a job that names the agent of f has ended with f still in the  *)
(* sessions directory: it made an attempt for f                            *)
RunAttempted(f) ==
    ( /\ last.op \in {"returned", "raised"}
      /\ where[f] = "sessions"
      /\ Uploadable(f)
      /\ \E n \in 1..Len(AgentsOf(ReturnedJob)) : NamesAt(ReturnedJob, n, f) )
    => tried[f] >= 1

RunAttemptedIfReached(f) ==
    ( /\ last.op \in {"returned", "raised"}
      /\ where[f] = "sessions"
      /\ Uploadable(f)
      /\ \E n \in 1..Len(AgentsOf(ReturnedJob)) : ReachedAt(ReturnedJob, n, f) )
    => tried[f] >= 1

C20_ArchivedIsStored ==
    honest =>
        \A f \in Files :
            (where[f] = "archive" /\ ~StartsArchived(f)) => f \in remote

=============================================================================
